---- MODULE Spec2Model ----
(***************************************************************************)
(* Model of src/extract_embeddings.py : class EmbeddingExtractor.           *)
(*                                                                         *)
(* Strings (paths, labels) are sequences of one-character strings.          *)
(* Confidences are integers in units of 1/ConfScale, normalized box        *)
(* coordinates are integers in units of 1/BoxScale (both scales make the   *)
(* modelled values exact binary floats, so float products truncate as the  *)
(* integer arithmetic below does).                                         *)
(***************************************************************************)
EXTENDS Integers, Sequences, FiniteSets, TLC

VARIABLES
  \* ---- one call of ProcessImage (SpecImage) ----
  ipc,              \* "start" | "returned" | "raised"
  inPath,           \* the imagePath argument
  inFile,           \* what cv2.imread finds at that path
  ret,              \* outcome of the call
  \* ---- one extractor and one call of ProcessFolders (Spec) ----
  pc,               \* "idle" | "loop" | "done" | "aborted"
  fs,               \* file system: root |-> sequence of [path, file] in discovery order
  DATASET,          \* self._DATASET, set by __init__
  imageFolder,      \* the argument of ProcessFolders
  imagePaths,       \* local imagePaths
  i,                \* number of loop iterations completed
  knownEmbeddings,  \* local knownEmbeddings
  knownNames,       \* local knownNames
  total,            \* local total
  results,          \* history: outcome of ProcessImage for each image handed to it
  printed,          \* the N of "serializing N encodings", 0 before it is printed
  outFile,          \* content of the file at _EMBEDDING_OUTPUT, as a sequence of dumps
  writes            \* number of writes to the output file

imgVars   == <<ipc, inPath, inFile, ret>>
batchVars == <<pc, fs, DATASET, imageFolder, imagePaths, i, knownEmbeddings,
               knownNames, total, results, printed, outFile, writes>>
vars      == <<imgVars, batchVars>>

----------------------------------------------------------------------------
(* Bounds of the model *)

MaxPathLen == 4

MaxCand == 2

MaxImages == 3

MaxOtherImages == 1

----------------------------------------------------------------------------
(* Program constants and number representations *)

\* imutils.resize(image, width=600)
TargetWidth == 600

\* if fW < 20 or fH < 20
MinFaceSize == 20

\* confidences detections[0, 0, i, 2] are modelled in units of 1/ConfScale
ConfScale == 100

\* box coordinates detections[0, 0, i, 3:7] are modelled in units of 1/BoxScale
BoxScale == 1024

\* os.path.sep
Sep == "/"

----------------------------------------------------------------------------
(* Pure helpers *)

Max(a, b) == IF a >= b THEN a ELSE b

Min(a, b) == IF a <= b THEN a ELSE b

\* int(a / b) for b > 0: truncation toward zero (Python int(), numpy astype("int"))
Trunc(a, b) == IF a >= 0 THEN a \div b ELSE -((-a) \div b)

\* str.split(sep) for a one-character separator: empty pieces are kept
RECURSIVE Split(_, _)
Split(s, sep) ==
  IF s = <<>> THEN << <<>> >>
  ELSE LET rest == Split(Tail(s), sep) IN
       IF Head(s) = sep
         THEN << <<>> >> \o rest
         ELSE << <<Head(s)>> \o Head(rest) >> \o Tail(rest)

\* number of elements of a[start:stop] on an axis of length n (Python slicing:
\* a negative index counts from the end, indices are clamped to [0, n])
SliceIndex(v, n) == IF v < 0 THEN Max(v + n, 0) ELSE Min(v, n)

SliceLen(start, stop, n) == Max(0, SliceIndex(stop, n) - SliceIndex(start, n))

\* np.argmax over the confidence column: the first index of the maximum
ArgMax(dets) ==
  CHOOSE k \in 1..Len(dets) :
    /\ \A j \in 1..Len(dets) : dets[j].conf <= dets[k].conf
    /\ \A j \in 1..(k - 1) : dets[j].conf < dets[k].conf

\* len(detections) of the (1, 1, N, 7) detector output: its first axis
LenDetections(dets) == 1

----------------------------------------------------------------------------
(* Outcomes of ProcessImage *)

NoFace == [src |-> 0, w |-> 0, h |-> 0, x0 |-> 0, x1 |-> 0, y0 |-> 0, y1 |-> 0]

NoVec == [face |-> NoFace, shape |-> <<>>]

NoBox == <<0, 0, 0, 0>>

\* an exception of type e leaves ProcessImage
Raise(e) ==
  [kind |-> "raise", err |-> e, name |-> <<>>, vec |-> NoVec,
   embedCalls |-> 0, sel |-> 0, box |-> NoBox]

\* ProcessImage returns None; s, b: the detection selected and its pixel box, if any
ReturnNone(n, s, b) ==
  [kind |-> "none", err |-> "", name |-> n, vec |-> NoVec,
   embedCalls |-> 0, sel |-> s, box |-> b]

\* ProcessImage returns (vec, name)
ReturnPair(n, v, s, b) ==
  [kind |-> "pair", err |-> "", name |-> n, vec |-> v,
   embedCalls |-> 1, sel |-> s, box |-> b]

----------------------------------------------------------------------------
(* EmbeddingExtractor.GetImage *)

\* imutils.resize(image, width=600): dim = (600, int(h * (600 / float(w))))
ResizedHeight(file) == Trunc(file.h * TargetWidth, file.w)

GetImageMutant(file) ==
  IF ~file.decodable
    THEN [err |-> "AttributeError", src |-> 0, w |-> 0, h |-> 0]
    ELSE [err |-> "", src |-> file.id, w |-> file.w, h |-> file.h]

\* cv2.imread gives None for a file it cannot decode, and imutils.resize(None)
\* raises AttributeError on image.shape; otherwise the image rescaled to width 600
GetImage(file) ==
  IF ~file.decodable
    THEN [err |-> "AttributeError", src |-> 0, w |-> 0, h |-> 0]
    ELSE [err |-> "", src |-> file.id, w |-> TargetWidth, h |-> ResizedHeight(file)]

----------------------------------------------------------------------------
(* EmbeddingExtractor.ExtractEmbedding *)

TooSmallMutant(fW, fH) == fW <= MinFaceSize \/ fH <= MinFaceSize

\* if fW < 20 or fH < 20
TooSmall(fW, fH) == fW < MinFaceSize \/ fH < MinFaceSize

\* face = image[startY:endY, startX:endX]; the embedder's output is represented
\* by the face region it was computed from, with the (1, 128) shape of forward()
ExtractEmbedding(image, startX, endX, startY, endY) ==
  LET fH == SliceLen(startY, endY, image.h)
      fW == SliceLen(startX, endX, image.w)
      face == [src |-> image.src, w |-> image.w, h |-> image.h,
               x0 |-> SliceIndex(startX, image.w), x1 |-> SliceIndex(endX, image.w),
               y0 |-> SliceIndex(startY, image.h), y1 |-> SliceIndex(endY, image.h)]
  IN IF TooSmall(fW, fH)
       THEN [none |-> TRUE, vec |-> NoVec]
       ELSE [none |-> FALSE, vec |-> [face |-> face, shape |-> <<1, 128>>]]

----------------------------------------------------------------------------
(* EmbeddingExtractor.ProcessImage *)

\* self.GetConfidence(detections, element)
GetConfidence(dets, element) == dets[element].conf

\* if confidence > 0.5
Accept(confidence) == confidence * 10 > 5 * ConfScale

\* box = detections[0, 0, i, 3:7] * np.array([w, h, w, h]); box.astype("int")
\* gives (startX, startY, endX, endY)
Denormalize(b, w, h) ==
  << Trunc(b[1] * w, BoxScale), Trunc(b[2] * h, BoxScale),
     Trunc(b[3] * w, BoxScale), Trunc(b[4] * h, BoxScale) >>

\* the body of ProcessImage after (h, w) = image.shape[:2]
DetectAndEmbed(name, image, dets) ==
  IF LenDetections(dets) > 0
    THEN IF Len(dets) = 0
           THEN Raise("ValueError")          \* np.argmax of an empty sequence
           ELSE LET k == ArgMax(dets)
                    confidence == GetConfidence(dets, k)
                IN IF Accept(confidence)
                     THEN LET box == Denormalize(dets[k].box, image.w, image.h)
                              e == ExtractEmbedding(image, box[1], box[3], box[2], box[4])
                          IN IF e.none
                               THEN ReturnNone(name, k, box)
                               ELSE ReturnPair(name, e.vec, k, box)
                     ELSE ReturnNone(name, k, NoBox)   \* falls off the end
    ELSE ReturnNone(name, 0, NoBox)

\* imagePath.split(os.path.sep)[-2]
LabelOf(parts) == parts[Len(parts) - 1]

\* ProcessImage(imagePath), with file what cv2.imread finds at imagePath
ProcessImage(imagePath, file) ==
  LET parts == Split(imagePath, Sep) IN
  IF Len(parts) < 2
    THEN Raise("IndexError")                 \* [-2] of a one-element list
    ELSE LET name == LabelOf(parts)
             image == GetImage(file)
         IN IF image.err # ""
              THEN Raise(image.err)
              ELSE DetectAndEmbed(name, image, file.dets)

----------------------------------------------------------------------------
(* Inputs of one ProcessImage call *)

Chars == {Sep, "a"}

Paths == UNION {[1..n -> Chars] : n \in 0..MaxPathLen}

\* confidences 0.50, 0.51, 0.90
Confs == {50, 51, 90}

\* normalized boxes (x1, y1, x2, y2) in units of 1/BoxScale: 19 x 20 and 20 x 20
\* pixels on a 600 x 600 image, a negative start coordinate, an end beyond the image
Boxes == { <<0, 0, 33, 35>>, <<0, 0, 35, 35>>, <<-17, 0, 512, 512>>,
           <<256, 256, 1100, 768>> }

Candidates == [conf : Confs, box : Boxes]

Detections == UNION {[1..n -> Candidates] : n \in 0..MaxCand}

\* (width, height) of the decoded file
Dims == { <<600, 600>>, <<1200, 600>>, <<300, 200>> }

Undecodable == [decodable |-> FALSE, id |-> 0, w |-> 0, h |-> 0, dets |-> <<>>]

Decodable(id, d, dets) ==
  [decodable |-> TRUE, id |-> id, w |-> d[1], h |-> d[2], dets |-> dets]

Files == {Undecodable} \cup {Decodable(1, d, dets) : d \in Dims, dets \in Detections}

\* no outcome yet
NoRet == [Raise("") EXCEPT !.kind = "pending"]

BatchIdle ==
  /\ pc = "idle"
  /\ fs = <<>>
  /\ DATASET = <<>>
  /\ imageFolder = <<>>
  /\ imagePaths = <<>>
  /\ i = 0
  /\ knownEmbeddings = <<>>
  /\ knownNames = <<>>
  /\ total = 0
  /\ results = <<>>
  /\ printed = 0
  /\ outFile = <<>>
  /\ writes = 0

ImageIdle ==
  /\ ipc = "idle"
  /\ inPath = <<>>
  /\ inFile = Undecodable
  /\ ret = NoRet

----------------------------------------------------------------------------
(* SpecImage: one call ProcessImage(inPath) on a file inFile *)

\* a path cv2.imread can decode names a file: it does not end with a separator
NamesFile(p) == p # <<>> /\ p[Len(p)] # Sep

InitImage ==
  /\ ipc = "start"
  /\ inPath \in Paths
  /\ inFile \in Files
  /\ inFile.decodable => NamesFile(inPath)
  /\ ret = NoRet
  /\ BatchIdle

\* the call returns None or (vec, name)
ProcessImageReturns ==
  /\ ipc = "start"
  /\ LET r == ProcessImage(inPath, inFile) IN
       /\ r.kind # "raise"
       /\ ret' = r
       /\ ipc' = "returned"
  /\ UNCHANGED <<inPath, inFile, batchVars>>

\* an exception leaves the call
ProcessImageRaises ==
  /\ ipc = "start"
  /\ LET r == ProcessImage(inPath, inFile) IN
       /\ r.kind = "raise"
       /\ ret' = r
       /\ ipc' = "raised"
  /\ UNCHANGED <<inPath, inFile, batchVars>>

NextImage == ProcessImageReturns \/ ProcessImageRaises

SpecImage == InitImage /\ [][NextImage]_vars

----------------------------------------------------------------------------
(* The file system a batch runs on *)

RootR == <<"r">>

RootS == <<"s">>

Roots == {RootR, RootS}

\* files of a labelled dataset: two with a clear face, one whose best detection
\* has confidence 0.5, one whose face region is 19 x 20, one that does not
\* decode, one for which the detector gives no candidate
Catalogue ==
  { [label |-> <<"a">>, file |-> Decodable(1, <<600, 600>>,
                    <<[conf |-> 90, box |-> <<256, 256, 1100, 768>>]>>)],
    [label |-> <<"b">>, file |-> Decodable(2, <<1200, 600>>,
                    <<[conf |-> 51, box |-> <<256, 256, 1100, 768>>]>>)],
    [label |-> <<"a">>, file |-> Decodable(3, <<600, 600>>,
                    <<[conf |-> 50, box |-> <<256, 256, 1100, 768>>]>>)],
    [label |-> <<"b">>, file |-> Decodable(4, <<600, 600>>,
                    <<[conf |-> 90, box |-> <<0, 0, 33, 35>>]>>)],
    [label |-> <<"b">>, file |-> Undecodable],
    [label |-> <<"a">>, file |-> Decodable(5, <<300, 200>>, <<>>)] }

\* the k-th file of a directory tree is named "f" * k
FileName(k) == [j \in 1..k |-> "f"]

\* os.path.join(rootDir, filename) for the k-th file found under root
PathOf(root, label, k) == root \o <<Sep>> \o label \o <<Sep>> \o FileName(k)

\* the trees with at most n image files, in discovery order
Trees(root, n) ==
  UNION { { [k \in 1..m |-> [path |-> PathOf(root, pick[k].label, k),
                             file |-> pick[k].file]] :
            pick \in [1..m -> Catalogue] } : m \in 0..n }

\* paths.list_images(basePath): the image files under basePath, in discovery order
ListImages(basePath) == [k \in 1..Len(fs[basePath]) |-> fs[basePath][k].path]

\* cv2.imread(path): the content of the file at path
FileAt(path) ==
  LET e == CHOOSE e \in UNION {{fs[r][k] : k \in 1..Len(fs[r])} : r \in Roots} :
             e.path = path
  IN e.file

----------------------------------------------------------------------------
(* EmbeddingExtractor.__init__ and ProcessFolders *)

\* vec.flatten(): the (1, 128) output as a 1-D sequence of 128 elements
Flatten(vec) == [vec EXCEPT !.shape = <<vec.shape[1] * vec.shape[2]>>]

\* imagePaths = list(paths.list_images(self._DATASET)), in ProcessFolders(imageFolder)
Enumerated(dataset, folder) == ListImages(dataset)

NamesAfterMutant(names, r) == IF r.kind = "raise" THEN names ELSE Append(names, r.name)

\* if success == None: continue / else: knownNames.append(name)
NamesAfter(names, r) == IF r.kind = "pair" THEN Append(names, r.name) ELSE names

EmbeddingsAfterMutant(embeddings, r) ==
  IF r.kind = "pair" THEN <<Flatten(r.vec)>> \o embeddings ELSE embeddings

\* if success == None: continue / else: knownEmbeddings.append(vec.flatten())
EmbeddingsAfter(embeddings, r) ==
  IF r.kind = "pair" THEN Append(embeddings, Flatten(r.vec)) ELSE embeddings

TotalAfterMutant(t, r) == IF r.kind = "raise" THEN t ELSE t + 1

\* if success == None: continue / else: total += 1
TotalAfter(t, r) == IF r.kind = "pair" THEN t + 1 ELSE t

LoopFinishedMutant == TRUE

\* the for loop over imagePaths is exhausted
LoopFinished == i = Len(imagePaths)

\* pickle.dumps({"embeddings": knownEmbeddings, "names": knownNames})
Dump(embeddings, names) == [embeddings |-> embeddings, names |-> names]

\* the state after __init__(Dataset, ...): nothing enumerated, nothing written
Init ==
  /\ ImageIdle
  /\ pc = "idle"
  /\ DATASET \in Roots
  /\ \E tr \in Trees(RootR, MaxImages), ts \in Trees(RootS, MaxOtherImages) :
       fs = [root \in Roots |-> IF root = RootR THEN tr ELSE ts]
  /\ imageFolder = <<>>
  /\ imagePaths = <<>>
  /\ i = 0
  /\ knownEmbeddings = <<>>
  /\ knownNames = <<>>
  /\ total = 0
  /\ results = <<>>
  /\ printed = 0
  /\ outFile = <<>>
  /\ writes = 0

\* ProcessFolders(folder) up to the for loop
Start(folder) ==
  /\ pc = "idle"
  /\ imageFolder' = folder
  /\ imagePaths' = Enumerated(DATASET, folder)
  /\ knownEmbeddings' = <<>>
  /\ knownNames' = <<>>
  /\ total' = 1
  /\ i' = 0
  /\ pc' = "loop"
  /\ UNCHANGED <<fs, DATASET, results, printed, outFile, writes, imgVars>>

\* what one iteration does to the locals, given the outcome r of ProcessImage
Iterate(r) ==
  /\ results' = Append(results, [path |-> imagePaths[i + 1], kind |-> r.kind])
  /\ knownNames' = NamesAfter(knownNames, r)
  /\ knownEmbeddings' = EmbeddingsAfter(knownEmbeddings, r)
  /\ total' = TotalAfter(total, r)
  /\ UNCHANGED <<fs, DATASET, imageFolder, imagePaths, printed, outFile, writes, imgVars>>

Outcome == ProcessImage(imagePaths[i + 1], FileAt(imagePaths[i + 1]))

\* an iteration in which ProcessImage returns None: logged, continue
IterSkip ==
  /\ pc = "loop" /\ i < Len(imagePaths)
  /\ Outcome.kind = "none"
  /\ Iterate(Outcome)
  /\ i' = i + 1
  /\ pc' = "loop"

\* an iteration in which ProcessImage returns (vec, name)
IterAppend ==
  /\ pc = "loop" /\ i < Len(imagePaths)
  /\ Outcome.kind = "pair"
  /\ Iterate(Outcome)
  /\ i' = i + 1
  /\ pc' = "loop"

\* an iteration in which ProcessImage raises: nothing in ProcessFolders catches
\* it, the exception leaves ProcessFolders
IterRaise ==
  /\ pc = "loop" /\ i < Len(imagePaths)
  /\ Outcome.kind = "raise"
  /\ Iterate(Outcome)
  /\ i' = i
  /\ pc' = "aborted"

\* after the loop: print the count, dump the mapping, write it
Serialize ==
  /\ pc = "loop" /\ LoopFinished
  /\ printed' = total
  /\ outFile' = Append(outFile, Dump(knownEmbeddings, knownNames))
  /\ writes' = writes + 1
  /\ pc' = "done"
  /\ UNCHANGED <<fs, DATASET, imageFolder, imagePaths, i, knownEmbeddings,
                 knownNames, total, results, imgVars>>

Next ==
  \/ \E folder \in Roots : Start(folder)
  \/ IterSkip
  \/ IterAppend
  \/ IterRaise
  \/ Serialize

Spec == Init /\ [][Next]_vars

----------------------------------------------------------------------------
(* Notions the claims about ProcessImage are stated with *)

HasSep(p) == \E k \in 1..Len(p) : p[k] = Sep

LastSep(p) == IF HasSep(p) THEN CHOOSE k \in 1..Len(p) :
                                  p[k] = Sep /\ \A j \in (k + 1)..Len(p) : p[j] # Sep
              ELSE 0

\* basename: what follows the last separator
Basename(p) == SubSeq(p, LastSep(p) + 1, Len(p))

RECURSIVE StripSeps(_)
StripSeps(p) ==
  IF p # <<>> /\ p[Len(p)] = Sep THEN StripSeps(SubSeq(p, 1, Len(p) - 1)) ELSE p

\* dirname: what precedes the last separator, without trailing separators
\* unless it is made of separators only
Dirname(p) ==
  LET head == SubSeq(p, 1, LastSep(p)) IN
  IF StripSeps(head) = <<>> THEN head ELSE StripSeps(head)

\* the name of the directory that holds the file at path p
ParentDirName(p) == Basename(Dirname(p))

\* some candidate has confidence > 0.5
SomeAbove(dets) == \E k \in 1..Len(dets) : 2 * dets[k].conf > ConfScale

\* the call ran to its end on a decodable file at a path with a parent component
CallDone == ipc # "start" /\ ipc # "idle"

Decoded == CallDone /\ inFile.decodable /\ HasSep(inPath)

\* the best detection was accepted, so that a pixel box was computed
Accepted == Decoded /\ SomeAbove(inFile.dets)

\* width and height of image[startY:endY, startX:endX] on the 600-wide image
CropW == SliceLen(ret.box[1], ret.box[3], TargetWidth)

CropH == SliceLen(ret.box[2], ret.box[4], (inFile.h * TargetWidth) \div inFile.w)

----------------------------------------------------------------------------
(* Claims about ProcessImage, checked under SpecImage *)

\* C3 (as claimed): for every decoded image without a detection of confidence
\* > 0.5, a zero-candidate detector output included, ProcessImage returns
\* None without raising and without a call of the embedder.
C3_NoFaceIsNoResult ==
  (Decoded /\ ~SomeAbove(inFile.dets)) =>
     (ipc = "returned" /\ ret.kind = "none" /\ ret.embedCalls = 0)

\* C3, the part the code satisfies: with at least one candidate and none above
\* 0.5 the call returns None, the embedder is not called, and the detection
\* looked at is the first one of maximum confidence.
C3_NonEmptyNoFace ==
  (Decoded /\ ~SomeAbove(inFile.dets) /\ Len(inFile.dets) > 0) =>
     /\ ipc = "returned" /\ ret.kind = "none" /\ ret.embedCalls = 0
     /\ \A k \in 1..Len(inFile.dets) : inFile.dets[k].conf <= inFile.dets[ret.sel].conf

\* C4: once a detection is accepted, a crop narrower or lower than 20 pixels
\* (negative and out-of-image coordinates included) gives None without a call
\* of the embedder, and a crop of at least 20 x 20 gives a pair after one call.
C4_SmallCropIsNoResult ==
  Accepted =>
     /\ ipc = "returned"
     /\ (CropW < 20 \/ CropH < 20) => (ret.kind = "none" /\ ret.embedCalls = 0)
     /\ (CropW >= 20 /\ CropH >= 20) => (ret.kind = "pair" /\ ret.embedCalls = 1)

\* C4 witness: a 19 x 20 crop was rejected.
C4_Witness ==
  Accepted /\ CropW = 19 /\ CropH = 20 /\ ret.kind = "none" /\ ret.embedCalls = 0

\* C4, further cases reached: exactly 20 x 20 accepted; a negative start rejected.
C4_Reach20 == Accepted /\ CropW = 20 /\ CropH = 20 /\ ret.kind = "pair"

C4_ReachNegative == Accepted /\ ret.box[1] < 0 /\ CropW = 0 /\ ret.kind = "none"

\* C7 (as claimed): whenever ProcessImage succeeds on a path with a parent
\* directory component, the label returned is the name of the directory that
\* holds the file.
C7_LabelIsParentDir ==
  (ipc = "returned" /\ ret.kind = "pair" /\ HasSep(inPath)) =>
     ret.name = ParentDirName(inPath)

\* C7, the part the code satisfies: the label is the parent directory's name
\* when the last separator is not preceded by another separator.
C7_LabelSingleSeparator ==
  (ipc = "returned" /\ ret.kind = "pair" /\ HasSep(inPath)
     /\ (LastSep(inPath) > 1 => inPath[LastSep(inPath) - 1] # Sep)) =>
     ret.name = ParentDirName(inPath)

\* C9 (as claimed): the accepted box is denormalized against the width and
\* height of the image as decoded from the file, before the rescale to 600.
C9_DenormalizedAgainstDecoded ==
  Accepted =>
     LET b == inFile.dets[ret.sel].box IN
     ret.box = << Trunc(b[1] * inFile.w, BoxScale), Trunc(b[2] * inFile.h, BoxScale),
                  Trunc(b[3] * inFile.w, BoxScale), Trunc(b[4] * inFile.h, BoxScale) >>

\* C9 (amended): the accepted box is denormalized against the width (600) and
\* height of the image GetImage returns, that is after the rescale to width
\* 600, and the crop given to the embedder is taken from that rescaled image
\* with those coordinates.
C9_DenormalizedAgainstRescaled ==
  Accepted =>
     LET b  == inFile.dets[ret.sel].box
         rh == (inFile.h * 600) \div inFile.w
     IN /\ ret.box = << Trunc(b[1] * 600, BoxScale), Trunc(b[2] * rh, BoxScale),
                        Trunc(b[3] * 600, BoxScale), Trunc(b[4] * rh, BoxScale) >>
        /\ ret.kind = "pair" =>
             /\ ret.vec.face.w = 600 /\ ret.vec.face.h = rh
             /\ ret.vec.face.x0 = SliceIndex(ret.box[1], 600)
             /\ ret.vec.face.x1 = SliceIndex(ret.box[3], 600)
             /\ ret.vec.face.y0 = SliceIndex(ret.box[2], rh)
             /\ ret.vec.face.y1 = SliceIndex(ret.box[4], rh)

\* C9 witness: a face was embedded from a file that is not 600 pixels wide, and
\* its box differs from the one the decoded size would give.
C9_Witness ==
  /\ Accepted /\ ret.kind = "pair" /\ inFile.w = 1200
  /\ ret.box[3] # Trunc(inFile.dets[ret.sel].box[3] * inFile.w, BoxScale)

----------------------------------------------------------------------------
(* Notions the claims about ProcessFolders are stated with *)

RECURSIVE CountKind(_, _)
CountKind(rs, kind) ==
  IF rs = <<>> THEN 0
  ELSE (IF Head(rs).kind = kind THEN 1 ELSE 0) + CountKind(Tail(rs), kind)

IsPair(e) == e.kind = "pair"

\* the images that were not skipped, in the order they were handed to ProcessImage
Kept == SelectSeq(results, IsPair)

\* the listing of a root, as found on the file system
Listing(root) == [k \in 1..Len(fs[root]) |-> fs[root][k].path]

Running == pc \in {"loop", "done", "aborted"}

\* the k-th image handed to ProcessImage is a decoded image in which no face
\* was detected above the threshold, and it was skipped
NoFaceSkipped(k) ==
  /\ results[k].kind = "none"
  /\ FileAt(results[k].path).decodable
  /\ ~SomeAbove(FileAt(results[k].path).dets)

----------------------------------------------------------------------------
(* Claims about ProcessFolders, checked under Spec *)

\* C1 (as claimed): for a file that does not decode ProcessImage returns None,
\* so the batch is not aborted by it.
C1_UndecodableIsSkipped ==
  \A k \in 1..Len(results) :
     ~FileAt(results[k].path).decodable => (results[k].kind = "none" /\ pc # "aborted")

\* C2: the two sequences have the same length in every state of the loop and
\* in the serialized output; at the end of a run every discovered image has
\* been handed to ProcessImage exactly once and the common length is the
\* number of discovered images minus the number for which it returned None.
C2_LengthsAgree ==
  /\ Len(knownEmbeddings) = Len(knownNames)
  /\ \A d \in 1..Len(outFile) : Len(outFile[d].embeddings) = Len(outFile[d].names)
  /\ pc = "done" =>
       /\ [k \in 1..Len(results) |-> results[k].path] = imagePaths
       /\ Len(outFile[1].embeddings) = Len(imagePaths) - CountKind(results, "none")
       /\ Len(knownEmbeddings) = Len(imagePaths) - CountKind(results, "none")

\* C2 witness: a run ended with one image skipped and two kept.
C2_Witness ==
  /\ pc = "done" /\ Len(imagePaths) = 3 /\ CountKind(results, "none") = 1
  /\ Len(outFile[1].embeddings) = 2 /\ Len(outFile[1].names) = 2

\* C5 (as claimed): the images handed to ProcessImage are those found under
\* the datasetRoot argument of the call.
C5_EnumeratesArgument ==
  Running =>
     /\ imagePaths = Listing(imageFolder)
     /\ \A k \in 1..Len(results) : results[k].path = Listing(imageFolder)[k]

\* C6: the output is written once per completed run and only after every
\* discovered image was handed to ProcessImage; a run that aborts leaves it
\* unwritten; a run with no image, or with every image skipped, writes a
\* mapping with two empty sequences.
C6_WrittenOnceAtEnd ==
  /\ writes = Len(outFile)
  /\ writes = (IF pc = "done" THEN 1 ELSE 0)
  /\ writes > 0 =>
       /\ i = Len(imagePaths) /\ Len(results) = Len(imagePaths)
       /\ outFile[1] = [embeddings |-> knownEmbeddings, names |-> knownNames]
       /\ CountKind(results, "pair") = 0 =>
            outFile[1] = [embeddings |-> <<>>, names |-> <<>>]
  /\ pc = "aborted" => outFile = <<>>

\* C6 witness: a run over images that were all skipped wrote two empty sequences.
C6_Witness ==
  /\ pc = "done" /\ writes = 1 /\ Len(imagePaths) >= 2
  /\ CountKind(results, "none") = Len(imagePaths)
  /\ outFile = <<[embeddings |-> <<>>, names |-> <<>>]>>

\* C6, further case reached: a run aborted in mid-batch and nothing is written.
C6_ReachAborted == pc = "aborted" /\ Len(results) >= 2 /\ writes = 0 /\ outFile = <<>>

\* C8: embeddings[k] and names[k] come from the same ProcessImage call, the
\* one on the k-th image that was not skipped, in discovery order; a step
\* either leaves both sequences alone (a skip) or appends one element to each.
C8_AlignedInDiscoveryOrder ==
  /\ [](/\ Len(knownEmbeddings) = Len(Kept) /\ Len(knownNames) = Len(Kept)
        /\ \A k \in 1..Len(Kept) :
             LET r == ProcessImage(Kept[k].path, FileAt(Kept[k].path)) IN
             /\ knownNames[k] = r.name
             /\ knownEmbeddings[k].face = r.vec.face
             /\ knownEmbeddings[k].shape = <<128>>
        /\ \A k \in 1..Len(results) : results[k].path = imagePaths[k])
  /\ [][pc = "loop" =>
          \/ /\ knownEmbeddings' = knownEmbeddings /\ knownNames' = knownNames
          \/ /\ results'[Len(results')].kind = "pair"
             /\ Len(knownEmbeddings') = Len(knownEmbeddings) + 1
             /\ Len(knownNames') = Len(knownNames) + 1
             /\ SubSeq(knownEmbeddings', 1, Len(knownEmbeddings)) = knownEmbeddings
             /\ SubSeq(knownNames', 1, Len(knownNames)) = knownNames]_vars

\* C8 witness: an image between two kept ones was skipped, and the output is
\* the two kept ones in discovery order.
C8_Witness ==
  /\ pc = "done" /\ Len(results) = 3
  /\ results[1].kind = "pair" /\ results[2].kind = "none" /\ results[3].kind = "pair"
  /\ Len(knownNames) = 2 /\ knownNames[1] # knownNames[2]
  /\ knownEmbeddings[1].face.src = FileAt(imagePaths[1]).id
  /\ knownEmbeddings[2].face.src = FileAt(imagePaths[3]).id

\* C10 (as claimed): total is incremented for an image in which no face was
\* detected, so that the count exceeds len(embeddings) by more than 1.
C10_CountsNoFaceImages ==
  (Running /\ \E k \in 1..Len(results) : NoFaceSkipped(k)) =>
     total > Len(knownEmbeddings) + 1

\* C10 (amended): total starts at 1 and is incremented only in the iterations
\* that append a pair, so the count printed before serialization exceeds
\* len(embeddings) by exactly 1.
C10_CountIsLengthPlusOne ==
  /\ Running => total = 1 + Len(knownEmbeddings)
  /\ (pc = "loop" /\ i = 0) => total = 1
  /\ pc = "done" => printed = 1 + Len(outFile[1].embeddings)

\* C10 witness: a run in which an image without a face was skipped printed
\* len(embeddings) + 1.
C10_Witness ==
  /\ pc = "done" /\ \E k \in 1..Len(results) : NoFaceSkipped(k)
  /\ Len(knownEmbeddings) = 1 /\ printed = 2

====
